---- MODULE Spec2Model ----
(***************************************************************************)
(* UniGit: the recursive pull sweep (git_pull_recursive, git_pull), the    *)
(* commit summariser (summarize_with_ollama) and the summary ledger        *)
(* (save_summaries), as driven by the "pull all" menu entry.               *)
(***************************************************************************)
EXTENDS Integers, Sequences, FiniteSets, TLC

VARIABLES
    enable_summary,     \* self.enable_summary
    dry_run,            \* self.dry_run
    max_retries,        \* self.max_retries
    summaries,          \* self.summaries
    current_date,       \* self.current_date
    summary_failures,   \* self.summary_failures
    ledger,             \* git_summaries.txt: NoFile, or its content
    clock,              \* the wall clock read by datetime.now()
    pc,                 \* where the process is: "menu" or "walk" (inside git_pull_recursive)
    stack,              \* git_pull_recursive's active calls, innermost first
    runs,               \* number of "pull all" runs started
    processed,          \* directories handed to git_pull in the current run
    trace,              \* what the last step called, printed and logged
    prev,               \* the fields and the file as they were before the last step
    cwd,                \* Path.cwd(): the directory the process was started in
    summarize_call,     \* the last call of summarize_with_ollama made on its own
    switch_call         \* the last call of switch_branch

vars == <<enable_summary, dry_run, max_retries, summaries, current_date,
          summary_failures, ledger, clock, pc, stack, runs, processed, trace, prev,
          cwd, summarize_call, switch_call>>

(***************************************************************************)
(* Bounds of the model.                                                    *)
(***************************************************************************)
MaxRuns == 2
MaxRetries == 1
MaxRetriesAlone == 2    \* max_retries when summarize_with_ollama is called on its own
MaxLinks == 1           \* symbolic links the system follows in one path (40 on Linux)

(***************************************************************************)
(* Text.  A text is known by where it comes from (id), its length, whether *)
(* it starts with "Error", and how many characters of the original are     *)
(* kept before an appended "..." (cut = 0: nothing was cut).               *)
(***************************************************************************)
Text(id, len, error) == [id |-> id, len |-> len, error |-> error, cut |-> 0]

None == Text("None", 0, FALSE)

NoCommitsMsg     == Text("No commit messages to summarize.", 32, FALSE)
InsufficientMsg  == Text("Summary generation produced insufficient results.", 49, FALSE)
TimedOutMsg      == Text("Error: Summary generation timed out.", 36, TRUE)
CommandFailedMsg == Text("Error generating summary: Ollama command failed.", 48, TRUE)
NotInstalledMsg  == Text("Error: Ollama not installed.", 28, TRUE)
UnexpectedMsg    == Text("Error generating summary due to an unexpected issue.", 52, TRUE)

\* str.startswith("Error")
StartsWithError(t) == t.error

\* summary[:997] + "..."
Truncate(t) == [t EXCEPT !.len = 1000, !.cut = 997]

\* A captured output is [pad |-> amount of surrounding whitespace, txt |-> the rest].
Raw(pad, t) == [pad |-> pad, txt |-> t]

\* result.stdout.strip(): the text the generation service printed
Strip(raw) == raw.txt

StripSKept(s) == s

\* str.strip() of a git output or of the commit messages, whose txt is a string
StripS(s) == [s EXCEPT !.pad = 0]

\* "not s" for such a string: it has no character at all
IsEmptyS(s) == s.pad = 0 /\ s.txt = ""

Event(op, arg) == [op |-> op, arg |-> arg]

(***************************************************************************)
(* summarize_with_ollama.  gen[attempt+1] is what the generation service   *)
(* does at that attempt: what "ollama list" (probe) and "ollama run" (run) *)
(* raise ("ok": nothing) and what the run prints (out).                    *)
(***************************************************************************)
Exceptions == {"TimeoutExpired", "CalledProcessError", "FileNotFoundError", "Exception"}

\* the exception an attempt raises inside the try block, "none" if it raises nothing
Raised(o) == IF o.probe # "ok" THEN o.probe ELSE IF o.run # "ok" THEN o.run ELSE "none"

\* the subprocess calls of one attempt
AttemptCalls(o) ==
    IF o.probe # "ok" THEN << Event("ollama list", o.probe) >>
    ELSE << Event("ollama list", "ok"), Event("ollama run", o.run) >>

\* "if not summary or len(summary) < 10"
TooShort(summary) == summary.len = 0 \/ summary.len < 10

ShortenFrom1000(summary) == IF summary.len >= 1000 THEN Truncate(summary) ELSE summary

\* "if len(summary) > 1000: summary = summary[:997] + '...'"
Shorten(summary) == IF summary.len > 1000 THEN Truncate(summary) ELSE summary

MayRetryOnLast(attempt, mr) == attempt <= mr

\* "if attempt < self.max_retries"
MayRetry(attempt, mr) == attempt < mr

RetriedAll == {"TimeoutExpired", "CalledProcessError", "Exception", "FileNotFoundError"}

\* the exceptions whose handler looks at the remaining attempts before giving up
Retried == {"TimeoutExpired", "CalledProcessError", "Exception"}

\* the text returned and the count added to summary_failures when a handler gives up
GiveUp(exc) ==
    CASE exc = "TimeoutExpired"     -> [ret |-> TimedOutMsg, inc |-> 1]
      [] exc = "CalledProcessError" -> [ret |-> CommandFailedMsg, inc |-> 1]
      [] exc = "FileNotFoundError"  -> [ret |-> NotInstalledMsg, inc |-> 1]
      [] OTHER                      -> [ret |-> UnexpectedMsg, inc |-> 1]

Sleep == << Event("sleep", "2") >>

RECURSIVE SummarizeLoop(_, _, _)
SummarizeLoop(attempt, mr, gen) ==
    IF attempt > mr
    THEN \* range(max_retries + 1) is exhausted: the function falls off its end
         [ret |-> None, inc |-> 0, calls |-> << >>, attempts |-> 0]
    ELSE LET o    == gen[attempt + 1]
             exc  == Raised(o)
             sum  == Strip(o.out)
             rest == SummarizeLoop(attempt + 1, mr, gen)
             again(sleep) == [rest EXCEPT !.calls = AttemptCalls(o) \o sleep \o @,
                                          !.attempts = @ + 1]
             stop(r) == [ret |-> r.ret, inc |-> r.inc, calls |-> AttemptCalls(o),
                         attempts |-> 1]
         IN  IF exc = "none"
             THEN IF TooShort(sum)
                  THEN IF MayRetry(attempt, mr) THEN again(Sleep)
                       ELSE stop([ret |-> InsufficientMsg, inc |-> 0])
                  ELSE stop([ret |-> Shorten(sum), inc |-> 0])
             ELSE IF exc \in Retried /\ MayRetry(attempt, mr) THEN again(Sleep)
                  ELSE stop(GiveUp(exc))

\* summarize_with_ollama(commit_messages): the text returned (ret), the count added
\* to self.summary_failures (inc), the subprocess calls made and the attempts made
Summarize(commit_messages, mr, gen) ==
    IF IsEmptyS(StripS(commit_messages))
    THEN [ret |-> NoCommitsMsg, inc |-> 0, calls |-> << >>, attempts |-> 0]
    ELSE SummarizeLoop(0, mr, gen)

(***************************************************************************)
(* git_pull(directory).  env is what git and the generation service do     *)
(* during this call: for each git command the exception it raises ("none": *)
(* it succeeds) and its output, and gen as in Summarize.  The result is    *)
(* the new value of the fields git_pull writes and what it called, printed *)
(* and logged.  (--recurse-submodules only adds a word to the pull         *)
(* command; it is not modelled.)                                           *)
(***************************************************************************)
\* str(e) of the CalledProcessError raised by check_call(cmd): "Command '[...]'
\* returned non-zero exit status N."  It holds the command and the exit status,
\* never what git wrote on its standard error.
ErrorOutput(e) ==
    [has403 |-> e.returncode = 403, forbidden |-> FALSE, PermissionDenied |-> FALSE]

\* '"403" in error_output or "forbidden" in error_output.lower()
\*  or "Permission denied" in error_output'
IsForbidden(error_output) ==
    error_output.has403 \/ error_output.forbidden \/ error_output.PermissionDenied

DryRunIgnored(dry) == FALSE

\* "if self.dry_run"
DryRun(dry) == dry

SameHeadNever(old_head, new_head) == FALSE

SameHeadInverted(old_head, new_head) == old_head # new_head

\* "if old_head == new_head"
SameHead(old_head, new_head) == old_head = new_head

WantsSummaryDisabled(new_commits, enable) == ~IsEmptyS(new_commits)

\* "if new_commits and self.enable_summary"
WantsSummary(new_commits, enable) == ~IsEmptyS(new_commits) /\ enable

TooManyFailuresLate(failures) == failures > 4

\* "if self.summary_failures > 3"
TooManyFailures(failures) == failures > 3

\* '"success": not summary.startswith("Error")'
Success(summary) == ~StartsWithError(summary)

SummaryRecord(directory, branch, summary) ==
    [directory |-> directory, branch |-> branch.txt, summary |-> summary,
     success |-> Success(summary)]

\* the two handlers that end git_pull's outer try block
Caught(exc) ==
    IF exc = "CalledProcessError" THEN Event("print", "Git error")
    ELSE Event("print", "Unexpected error")

GitPull(directory, env) ==
    LET same(t) == [summaries |-> summaries, failures |-> summary_failures,
                    enable |-> enable_summary, trace |-> t]
        fails(t, exc) == same(t \o << Caught(exc) >>)
        call(op, r) == Event(op, IF r.exc = "none" THEN StripS(r.out).txt ELSE r.exc)
        old_head == StripS(env.old.out)
        branch   == StripS(env.branch.out)
        t1 == << call("git rev-parse HEAD", env.old) >>
        t2 == t1 \o << call("git rev-parse --abbrev-ref HEAD", env.branch) >>
        \* the dry-run branch
        t3 == t2 \o << Event("git fetch", env.fetch.exc) >>
        t4 == t3 \o << call("git log old..origin/branch", env.pending) >>
        pending == StripS(env.pending.out)
        preview == << Event("log", "[Dry Run] Would pull"),
                      Event("log", "[Dry Run] New commits") >>
        \* the live branch
        t5 == t2 \o << Event("print", "Pulling"), Event("git pull", env.pull.exc) >>
        t5e == t5 \o << Event("stderr", env.pull.stderr) >>
        t6 == t5 \o << call("git rev-parse HEAD", env.new) >>
        new_head == StripS(env.new.out)
        t7 == t6 \o << call("git log old..new", env.commits) >>
        new_commits == StripS(env.commits.out)
        s  == Summarize(new_commits, max_retries, env.gen)
        t8 == t7 \o << Event("log", "New commits"), Event("print", "Generating summary"),
                       Event("summarize", s.ret.id) >>
    IN  IF env.old.exc # "none" THEN fails(t1, env.old.exc)
        ELSE IF env.branch.exc # "none" THEN fails(t2, env.branch.exc)
        ELSE IF DryRun(dry_run)
        THEN IF env.fetch.exc # "none" THEN fails(t3, env.fetch.exc)
             ELSE IF env.pending.exc # "none" THEN fails(t4, env.pending.exc)
             ELSE IF ~IsEmptyS(pending) THEN same(t4 \o preview)
             ELSE same(t4)
        ELSE IF env.pull.exc = "CalledProcessError"
        THEN IF IsForbidden(ErrorOutput(env.pull))
             THEN same(t5e \o << Event("print", "forbidden") >>)
             ELSE same(t5e \o << Event("print", "Git error") >>)
        ELSE IF env.pull.exc # "none" THEN fails(t5, env.pull.exc)
        ELSE IF env.new.exc # "none" THEN fails(t6, env.new.exc)
        ELSE IF SameHead(old_head, new_head)
        THEN same(t6 \o << Event("print", "No changes") >>)
        ELSE IF env.commits.exc # "none" THEN fails(t7, env.commits.exc)
        ELSE IF ~WantsSummary(new_commits, enable_summary) THEN same(t7)
        ELSE IF TooManyFailures(summary_failures)
        THEN [summaries |-> summaries, failures |-> summary_failures,
              enable |-> FALSE, trace |-> t7 \o << Event("log", "Disabling summaries") >>]
        ELSE IF s.ret = None
        THEN \* None.startswith raises AttributeError: nothing is appended
             [summaries |-> summaries, failures |-> summary_failures + s.inc,
              enable |-> enable_summary, trace |-> t8 \o << Caught("AttributeError") >>]
        ELSE [summaries |-> Append(summaries, SummaryRecord(directory, branch, s.ret)),
              failures |-> summary_failures + s.inc,
              enable |-> enable_summary, trace |-> t8]

(***************************************************************************)
(* save_summaries(summary_file_path).  The file is a sequence of chunks:   *)
(* the "Date:" header, one "Directory:/Branch:/summary" block per entry,   *)
(* the line of dashes, and whatever the file held before this process      *)
(* started.  io is what the file system does: fail = "none", or the step   *)
(* that raises ("read", "open", "write"); kept = the chunks that reached   *)
(* the file before a failing write.  An absent file is NoFile.             *)
(***************************************************************************)
File(exists, content) == [exists |-> exists, content |-> content]

NoFile == File(FALSE, << >>)

Chunk(kind, date, directory, branch, summary) ==
    [kind |-> kind, date |-> date, directory |-> directory, branch |-> branch,
     summary |-> summary]

\* f"Date: {self.current_date}\n\n"
Header(date) == Chunk("Date", date, 0, "", None)

\* f"Directory: ...\n" f"Branch: ...\n" f"{entry['summary']}\n\n"
Block(entry) == Chunk("Entry", 0, entry.directory, entry.branch, entry.summary)

\* "-" * 50 + "\n\n"
Separator == Chunk("Separator", 0, 0, "", None)

\* content written by an earlier process
OldContent == Chunk("Old", 0, 0, "", None)

RECURSIVE Blocks(_)
Blocks(entries) ==
    IF entries = << >> THEN << >> ELSE << Block(Head(entries)) >> \o Blocks(Tail(entries))

NothingToSaveWhenEmpty(sums, enable, dry) == sums = << >>

\* "if not self.summaries or not self.enable_summary or self.dry_run: return"
NothingToSave(sums, enable, dry) == sums = << >> \/ ~enable \/ dry

ValidSummariesAll(sums) == sums

ValidSummariesInverted(sums) == SelectSeq(sums, LAMBDA entry : ~entry.success)

\* "[s for s in self.summaries if s['success']]"
ValidSummaries(sums) == SelectSeq(sums, LAMBDA entry : entry.success)

NewContentUnseparated(valid, date, existing_content) ==
    << Header(date) >> \o Blocks(valid) \o existing_content

\* what the "with open(..., 'w')" block writes
NewContent(valid, date, existing_content) ==
    << Header(date) >> \o Blocks(valid)
       \o (IF existing_content # << >> THEN << Separator >> \o existing_content ELSE << >>)

Min(a, b) == IF a < b THEN a ELSE b

SaveSummaries(sums, enable, dry, date, file, io) ==
    LET valid == ValidSummaries(sums)
        \* existing_content = "" unless summary_file_path.exists()
        existing_content == IF file.exists THEN file.content ELSE << >>
        content == NewContent(valid, date, existing_content)
        error == << Event("print", "Error saving summaries") >>
        done(f, t) == [file |-> f, trace |-> t]
    IN  IF NothingToSave(sums, enable, dry) THEN done(file, << >>)
        ELSE IF valid = << >> THEN done(file, << Event("log", "No valid summaries to save") >>)
        ELSE IF io.fail = "read" /\ file.exists THEN done(file, error)
        ELSE IF io.fail = "open" THEN done(file, error)
        ELSE IF io.fail = "write"
        THEN \* open(..., "w") has emptied the file; some of the writes reached it
             done(File(TRUE, SubSeq(content, 1, Min(io.kept, Len(content) - 1))), error)
        ELSE done(File(TRUE, content), << Event("log", "Successfully saved") >>)

(***************************************************************************)
(* The directory tree below the working directory.  A name is              *)
(* [dot |-> it starts with ".", rest |-> what follows]; a directory lists  *)
(* its entries in the order os.listdir returns them.  A directory may      *)
(* refuse to be listed (readable = FALSE) or to have its entries looked up *)
(* (searchable = FALSE); a symbolic link names its target.  A number       *)
(* stands for one directory of the file system, however it is reached.     *)
(***************************************************************************)
Name(dot, rest) == [dot |-> dot, rest |-> rest]

DotGit == Name(TRUE, "git")

Entry(name, isdir, readable, entries) ==
    [name |-> name, isdir |-> isdir, readable |-> readable, entries |-> entries,
     searchable |-> TRUE, target |-> 0]

Dir(rest, entries) == Entry(Name(FALSE, rest), TRUE, TRUE, entries)

GitDir(entries) == Entry(DotGit, TRUE, TRUE, entries)

\* a directory of mode 000: neither listed nor searched
Closed(rest, entries) ==
    [Entry(Name(FALSE, rest), TRUE, FALSE, entries) EXCEPT !.searchable = FALSE]

\* a symbolic link to a directory
Link(rest, target) == [Entry(Name(FALSE, rest), TRUE, TRUE, << >>) EXCEPT !.target = target]

Root == 1

Tree ==
    << Dir("cwd", << 2, 4, 7, 10, 13, 16 >>),      \*  1  the working directory, a repository itself
       GitDir(<< 3 >>),                             \*  2  .git
       Dir("hooks", << >>),                         \*  3  .git/hooks
       Dir("a", << 5, 6 >>),                        \*  4  a: a repository
       GitDir(<< >>),                               \*  5  a/.git
       Dir("n", << 19 >>),                          \*  6  a/n: a repository inside a
       Entry(Name(TRUE, "cache"), TRUE, TRUE, << 8 >>),  \*  7  .cache
       Dir("r", << 9 >>),                           \*  8  .cache/r: a repository
       GitDir(<< >>),                               \*  9  .cache/r/.git
       Dir("b", << 11, 12 >>),                      \* 10  b: an ordinary directory
       Entry(Name(FALSE, "notes.txt"), FALSE, TRUE, << >>),  \* 11  b/notes.txt
       Dir("r", << 20 >>),                          \* 12  b/r: a repository
       Entry(Name(FALSE, "locked"), TRUE, FALSE, << 14 >>),  \* 13  locked: listdir is denied
       Dir("r", << 15 >>),                          \* 14  locked/r: a repository
       GitDir(<< >>),                               \* 15  locked/r/.git
       Dir("c", << 17, 18 >>),                      \* 16  c: a repository
       GitDir(<< >>),                               \* 17  c/.git
       Dir("src", << >>),                           \* 18  c/src
       GitDir(<< >>),                               \* 19  a/n/.git
       GitDir(<< >>),                               \* 20  b/r/.git
       Dir("linked", << 22, 25, 26 >>),             \* 21  a working directory with links
       Dir("p", << 23 >>),                          \* 22  p: an ordinary directory
       Dir("r", << 24 >>),                          \* 23  p/r: a repository
       GitDir(<< >>),                               \* 24  p/r/.git
       Link("l", 22),                               \* 25  l -> p
       Dir("s", << 27 >>),                          \* 26  s: an ordinary directory
       Link("up", 21),                              \* 27  s/up -> ..
       Dir("guarded", << 29, 31, 34 >>),            \* 28  a working directory with a closed one
       Dir("x", << 30 >>),                          \* 29  x: a repository
       GitDir(<< >>),                               \* 30  x/.git
       Closed("closed", << 32 >>),                  \* 31  closed: mode 000
       Dir("r", << 33 >>),                          \* 32  closed/r: a repository
       GitDir(<< >>),                               \* 33  closed/r/.git
       Dir("y", << 35 >>),                          \* 34  y: a repository
       GitDir(<< >>) >>                             \* 35  y/.git

\* the working directories the walk is started in
WalkRoots == { Root, 21, 28 }

Paths == 1..Len(Tree)

\* item.startswith('.')
StartsWithDot(item) == Tree[item].name.dot

\* "if item.startswith('.') and item != '.git': continue"
SkippedByName(item) == StartsWithDot(item) /\ Tree[item].name # DotGit

IsLink(item) == Tree[item].target # 0

\* the directory a path leads to once its symbolic links are followed
RECURSIVE Resolve(_)
Resolve(item) == IF IsLink(item) THEN Resolve(Tree[item].target) ELSE item

\* os.listdir(directory)
Listing(directory) == Tree[Resolve(directory)].entries

\* item_path.is_dir(), which follows symbolic links
IsDir(item) == Tree[Resolve(item)].isdir

Range(seq) == { seq[i] : i \in DOMAIN seq }

\* the entries of item can be looked up
CanSearch(item) == Tree[Resolve(item)].searchable

\* (item_path / ".git").is_dir()
HasGitDir(item) ==
    CanSearch(item) /\ \E g \in Range(Listing(item)) : Tree[g].name = DotGit /\ IsDir(g)

\* whether (item_path / ".git").is_dir() raises PermissionError: where the entries of
\* item cannot be looked up, Path.is_dir() lets the error through up to Python 3.12
\* and answers False from Python 3.13 on
IsDirRaises(item) == IF CanSearch(item) THEN {FALSE} ELSE {TRUE, FALSE}

\* a call of git_pull_recursive that is listing directory: the items still to visit,
\* and the symbolic links in the path of directory
Frame(directory, links) ==
    [directory |-> directory, items |-> Listing(directory), links |-> links]

\* git_pull_recursive(directory) as a whole: the directories it hands to git_pull, in
\* order, in a tree without symbolic links and where no test for .git raises
RECURSIVE Sweep(_)
RECURSIVE SweepItems(_)
SweepItems(items) ==
    IF items = << >> THEN << >>
    ELSE LET item == Head(items)
             here == IF SkippedByName(item) \/ ~IsDir(item) THEN << >>
                     ELSE IF HasGitDir(item) THEN << item >>
                     ELSE Sweep(item)
         IN  here \o SweepItems(Tail(items))

Sweep(directory) ==
    IF Tree[directory].readable THEN SweepItems(Tree[directory].entries) ELSE << >>

\* the dirs of one step of os.walk: the entries that are directories, links followed
WalkDirs(top) == SelectSeq(Tree[top].entries, IsDir)

\* "if '.git' in dirs"
GitInDirs(top) == \E d \in Range(WalkDirs(top)) : Tree[d].name = DotGit

\* dirs after "dirs.remove('.git')" and the filter of line 270
KeptDirs(top) == SelectSeq(WalkDirs(top), LAMBDA d : ~StartsWithDot(d))

\* find_git_repositories(start_dir): os.walk goes top-down, passes over a directory
\* it cannot list, and does not enter a symbolic link
RECURSIVE FindGitRepositories(_)
RECURSIVE WalkInto(_)
WalkInto(dirs) ==
    IF dirs = << >> THEN << >>
    ELSE (IF IsLink(Head(dirs)) THEN << >> ELSE FindGitRepositories(Head(dirs)))
         \o WalkInto(Tail(dirs))

FindGitRepositories(start_dir) ==
    IF ~Tree[start_dir].readable THEN << >>
    ELSE (IF GitInDirs(start_dir) THEN << start_dir >> ELSE << >>)
         \o WalkInto(KeptDirs(start_dir))

(***************************************************************************)
(* What git, the generation service and the file system may do.            *)
(***************************************************************************)
Ok(out) == [exc |-> "none", out |-> Raw(IF out = "" THEN 0 ELSE 1, out)]

Fails(exc) == [exc |-> exc, out |-> Raw(0, "")]

\* a command run by check_call: the exception raised, the exit status, and what the
\* command wrote on its standard error, which goes to the terminal
Done == [exc |-> "none", returncode |-> 0, stderr |-> ""]

Exits(code) == [exc |-> "CalledProcessError", returncode |-> code, stderr |-> ""]

Says(result, text) == [result EXCEPT !.stderr = text]

\* what git writes when the remote refuses access
DeniedTexts == { "fatal: unable to access: The requested URL returned error: 403",
                 "git@host: Permission denied (publickey)." }

Generated(len, error) == Raw(1, Text("generated", len, error))

Attempt(probe, run, out) == [probe |-> probe, run |-> run, out |-> out]

\* the attempts drawn during a pull sweep
SweepAttempts ==
    { Attempt("ok", "ok", Generated(120, FALSE)),
      Attempt("ok", "ok", Generated(0, FALSE)),
      Attempt("ok", "ok", Generated(120, TRUE)),
      Attempt("ok", "TimeoutExpired", Generated(0, FALSE)) }

Gens(attempts) == [1..(MaxRetries + 1) -> attempts]

Quiet == [old |-> Ok("A"), branch |-> Ok("main"), fetch |-> Done, pending |-> Ok(""),
          pull |-> Done, new |-> Ok("A"), commits |-> Ok(""),
          gen |-> [i \in 1..(MaxRetries + 1) |-> Attempt("ok", "ok", Generated(120, FALSE))]]

Envs ==
    { [Quiet EXCEPT !.old = r] : r \in {Fails("CalledProcessError"), Fails("FileNotFoundError")} }
    \cup { [Quiet EXCEPT !.branch = Fails("CalledProcessError")] }
    \cup { [Quiet EXCEPT !.fetch = Exits(1)] }
    \cup { [Quiet EXCEPT !.pending = r] : r \in {Fails("CalledProcessError"), Ok(""), Ok("c1")} }
    \cup { [Quiet EXCEPT !.pull = r] :
             r \in {Exits(1), Exits(128), Exits(403),
                    [exc |-> "FileNotFoundError", returncode |-> 0, stderr |-> ""]}
                   \cup { Says(Exits(128), t) : t \in DeniedTexts } }
    \cup { [Quiet EXCEPT !.new = r] : r \in {Fails("CalledProcessError"), Ok("A")} }
    \cup { [Quiet EXCEPT !.new = Ok("B"), !.commits = r] :
             r \in {Fails("CalledProcessError"), Ok("")} }
    \cup { [Quiet EXCEPT !.new = Ok("B"), !.commits = Ok("c1"), !.gen = g] :
             g \in Gens(SweepAttempts) }

MaxKept == 1

\* the commit messages handed to summarize_with_ollama: none, blank, one line
CommitTexts == { Raw(0, ""), Raw(2, ""), Raw(1, "c1") }

\* what an attempt may meet: the probe fails; the probe passes and the run fails;
\* both pass and the run prints a text of some length
CallAttempts ==
    { Attempt(p, "ok", Generated(0, FALSE)) :
        p \in {"TimeoutExpired", "CalledProcessError", "FileNotFoundError"} }
    \cup { Attempt("ok", r, Generated(0, FALSE)) : r \in Exceptions }
    \cup { Attempt("ok", "ok", Generated(len, FALSE)) : len \in {0, 9, 10, 1000, 1001} }
    \cup { Attempt("ok", "ok", Generated(120, TRUE)) }

\* one outcome for each attempt that range(max_retries + 1) allows
CallGens(mr) == [1..(mr + 1) -> CallAttempts]

Call(commit_messages, gen, result, made) ==
    [commit_messages |-> commit_messages, gen |-> gen, result |-> result, made |-> made]

NoCall == Call(Raw(0, ""), << >>, [ret |-> None, inc |-> 0, calls |-> << >>, attempts |-> 0],
               FALSE)

IOs == { [fail |-> "none", kept |-> 0], [fail |-> "read", kept |-> 0],
         [fail |-> "open", kept |-> 0] }
       \cup { [fail |-> "write", kept |-> k] : k \in 0..MaxKept }

(***************************************************************************)
(* switch_branch.  A line of "git branch -a" is the sequence of its        *)
(* pieces: each of " ", "*", "+" and "/" is one character, any other piece *)
(* is a run of characters that holds none of them.                         *)
(***************************************************************************)
Feature == << "feature" >>

Main == << "main" >>

FixA == << "fix", "/", "a" >>

\* the local branches, in the order git lists them
LocalOrder == << Feature, Main >>

Ref(remote, name) == [remote |-> remote, name |-> name]

\* the remote-tracking branches, in the order git lists them
RemoteOrder ==
    << Ref("origin", Feature), Ref("origin", FixA), Ref("origin", Main),
       Ref("upstream", Main) >>

OnBranch(name) == [kind |-> "branch", name |-> name]

Detached == [kind |-> "detached", name |-> << >>]

Unborn == [kind |-> "unborn", name |-> << >>]

\* a repository as "git branch -a" finds it: where HEAD is, the local branches, those
\* checked out in a linked worktree, the remote-tracking branches, and whether
\* refs/remotes/origin/HEAD points to origin/main
Branches(head, locals, worktrees, remotes, pointer) ==
    [exc |-> "none", head |-> head, locals |-> locals, worktrees |-> worktrees,
     remotes |-> remotes, pointer |-> pointer]

NoBranches == Branches(Unborn, {}, {}, {}, FALSE)

Listings ==
    { [NoBranches EXCEPT !.exc = "CalledProcessError"] }
    \cup
    { Branches(head, locals, worktrees, remotes, pointer) :
        head \in { OnBranch(Feature), OnBranch(Main), Detached, Unborn },
        locals \in SUBSET Range(LocalOrder),
        worktrees \in SUBSET Range(LocalOrder),
        remotes \in SUBSET Range(RemoteOrder),
        pointer \in BOOLEAN }

\* the listings git can print: HEAD is on a local branch or on none, a branch checked
\* out in a linked worktree is a local branch other than the one HEAD is on, and
\* origin/HEAD points to a branch that is there
Printable(listing) ==
    /\ listing.head.kind = "branch" => listing.head.name \in listing.locals
    /\ listing.worktrees \subseteq listing.locals \ {listing.head.name}
    /\ listing.pointer => Ref("origin", Main) \in listing.remotes

\* the mark git puts before a local branch
Mark(listing, name) ==
    IF listing.head = OnBranch(name) THEN "*"
    ELSE IF name \in listing.worktrees THEN "+"
    ELSE " "

LocalLine(mark, name) == << mark, " " >> \o name

DetachedLine == << "*", " ", "(HEAD", " ", "detached", " ", "at", " ", "1a2b3c4)" >>

RemoteLine(ref) == << " ", " ", "remotes", "/", ref.remote, "/" >> \o ref.name

PointerLine(ref) ==
    << " ", " ", "remotes", "/", ref.remote, "/", "HEAD", " ", "->", " ", ref.remote, "/" >>
    \o ref.name

RECURSIVE LocalLines(_, _)
LocalLines(listing, names) ==
    IF names = << >> THEN << >>
    ELSE (IF Head(names) \in listing.locals
          THEN << LocalLine(Mark(listing, Head(names)), Head(names)) >> ELSE << >>)
         \o LocalLines(listing, Tail(names))

RECURSIVE RemoteLines(_, _)
RemoteLines(listing, refs) ==
    IF refs = << >> THEN << >>
    ELSE (IF Head(refs) \in listing.remotes THEN << RemoteLine(Head(refs)) >> ELSE << >>)
         \o RemoteLines(listing, Tail(refs))

\* result.stdout.splitlines()
Lines(listing) ==
    (IF listing.head = Detached THEN << DetachedLine >> ELSE << >>)
    \o LocalLines(listing, LocalOrder)
    \o (IF listing.pointer THEN << PointerLine(Ref("origin", Main)) >> ELSE << >>)
    \o RemoteLines(listing, RemoteOrder)

\* line.strip()
RECURSIVE StripLeft(_)
StripLeft(line) ==
    IF line # << >> /\ Head(line) = " " THEN StripLeft(Tail(line)) ELSE line

RECURSIVE StripRight(_)
StripRight(line) ==
    IF line # << >> /\ line[Len(line)] = " "
    THEN StripRight(SubSeq(line, 1, Len(line) - 1)) ELSE line

StripLine(line) == StripRight(StripLeft(line))

\* branch.startswith(prefix)
StartsWith(branch, prefix) ==
    Len(branch) >= Len(prefix) /\ SubSeq(branch, 1, Len(prefix)) = prefix

\* part in branch
Contains(branch, part) ==
    \E i \in 1..(Len(branch) - Len(part) + 1) : SubSeq(branch, i, i + Len(part) - 1) = part

\* branch[2:]
Drop2(branch) == SubSeq(branch, 3, Len(branch))

Slashes(branch) == { i \in DOMAIN branch : branch[i] = "/" }

\* branch.split('/', 2) has a third piece
SplitsInThree(branch) == Cardinality(Slashes(branch)) >= 2

\* branch.split('/', 2)[2]: what follows the second "/"
Split2(branch) ==
    LET first == CHOOSE i \in Slashes(branch) : \A j \in Slashes(branch) : i <= j
        second == CHOOSE i \in Slashes(branch) \ {first} :
                      \A j \in Slashes(branch) \ {first} : i <= j
    IN  SubSeq(branch, second + 1, Len(branch))

Branch(branch, is_current) == [branch |-> branch, is_current |-> is_current]

Names(branches) == { branches[i].branch : i \in DOMAIN branches }

\* "if remote_branch not in [b[0] for b in branches]"
IsNewName(remote_branch, branches) == remote_branch \notin Names(branches)

\* one turn of the loop of lines 473-485; raised is the IndexError of line 481
ParseLine(parsed, line) ==
    LET branch == StripLine(line)
        branches == parsed.branches
    IN  IF parsed.raised THEN parsed
        ELSE IF StartsWith(branch, << "*" >>)
        THEN [parsed EXCEPT !.branches = Append(branches, Branch(Drop2(branch), TRUE))]
        ELSE IF StartsWith(branch, << "remotes", "/" >>)
        THEN IF Contains(branch, << "/", "HEAD", " ", "->" >>) THEN parsed
             ELSE IF ~SplitsInThree(branch) THEN [parsed EXCEPT !.raised = TRUE]
             ELSE IF IsNewName(Split2(branch), branches)
             THEN [parsed EXCEPT !.branches = Append(branches, Branch(Split2(branch), FALSE))]
             ELSE parsed
        ELSE [parsed EXCEPT !.branches = Append(branches, Branch(branch, FALSE))]

\* the loop of lines 472-485
RECURSIVE ParseLines(_, _)
ParseLines(parsed, lines) ==
    IF lines = << >> THEN parsed
    ELSE ParseLines(ParseLine(parsed, Head(lines)), Tail(lines))

ParseBranches(lines) == ParseLines([branches |-> << >>, raised |-> FALSE], lines)

\* check_repo_exists(repo_name) for a name without "/": the directory of that name in
\* the working directory if it is a repository, else the first repository of that name
\* find_git_repositories returns; 0 stands for no repository
Named(directory, repo_name) == Tree[directory].name = Name(FALSE, repo_name)

CheckRepoExists(repo_name, start_dir) ==
    LET direct == SelectSeq(Listing(start_dir),
                            LAMBDA d : Named(d, repo_name) /\ HasGitDir(d))
        all_repos == SelectSeq(FindGitRepositories(start_dir),
                               LAMBDA d : Named(d, repo_name))
    IN  IF direct # << >> THEN [exists |-> TRUE, repo_path |-> direct[1]]
        ELSE IF all_repos # << >> THEN [exists |-> TRUE, repo_path |-> all_repos[1]]
        ELSE [exists |-> FALSE, repo_path |-> 0]

RepoNames == { "a", "n", "r", "absent" }

\* what the user types at "Enter branch number to checkout (or 'q' to cancel)"
Selections == { "q", "Q", "x", "1", "2", "9" }

\* selection.lower()
Lower(selection) == IF selection = "Q" THEN "q" ELSE selection

\* int(selection) raises ValueError
IsNumber(selection) == selection \in { "1", "2", "9" }

\* int(selection)
Int_(selection) ==
    CASE selection = "1" -> 1
      [] selection = "2" -> 2
      [] selection = "9" -> 9

\* "if 0 <= branch_idx < len(branches)", branch_idx being int(selection) - 1
InRange(selection, branches) ==
    0 <= Int_(selection) - 1 /\ Int_(selection) - 1 < Len(branches)

\* switch_branch as a whole: the list it built, the branch it asked git to check out
\* and what it called and printed
Switched(found, branches, parsed, selected_branch, t) ==
    [repo_path |-> found.repo_path, branches |-> branches, parsed |-> parsed,
     selected_branch |-> selected_branch, trace |-> t]

SwitchBranchOf(repo_name, listing, selection, checkout, start_dir) ==
    LET found == CheckRepoExists(repo_name, start_dir)
        parsed == ParseBranches(Lines(listing))
        branches == parsed.branches
        ran == << Event("git branch -a", listing.exc) >>
        shown == ran \o << Event("print", "Available branches:") >>
        chosen == branches[Int_(selection)]
    IN  IF ~found.exists
        THEN Switched(found, << >>, FALSE, << >>, << Event("print", "Repository not found") >>)
        ELSE IF listing.exc # "none"
        THEN Switched(found, << >>, FALSE, << >>, ran \o << Event("print", "Git error") >>)
        ELSE IF parsed.raised
        THEN Switched(found, branches, FALSE, << >>,
                      ran \o << Event("print", "Unexpected error") >>)
        ELSE IF branches = << >>
        THEN Switched(found, branches, TRUE, << >>,
                      ran \o << Event("print", "No branches found.") >>)
        ELSE IF Lower(selection) = "q"
        THEN Switched(found, branches, TRUE, << >>,
                      shown \o << Event("print", "Branch switch cancelled.") >>)
        ELSE IF ~IsNumber(selection)
        THEN Switched(found, branches, TRUE, << >>,
                      shown \o << Event("print", "Please enter a valid number.") >>)
        ELSE IF ~InRange(selection, branches)
        THEN Switched(found, branches, TRUE, << >>,
                      shown \o << Event("print", "Invalid branch number.") >>)
        ELSE IF chosen.is_current
        THEN Switched(found, branches, TRUE, << >>,
                      shown \o << Event("print", "Already on branch") >>)
        ELSE Switched(found, branches, TRUE, chosen.branch,
                      shown \o << Event("git checkout", checkout.exc),
                                  Event("print", IF checkout.exc = "none"
                                                 THEN "Switched to branch"
                                                 ELSE "Git error") >>)

SwitchCall(repo_name, listing, selection, checkout, result, made) ==
    [repo_name |-> repo_name, listing |-> listing, selection |-> selection,
     checkout |-> checkout, result |-> result, made |-> made]

NoSwitch ==
    SwitchCall("", NoBranches, "q", Done,
               Switched([exists |-> FALSE, repo_path |-> 0], << >>, FALSE, << >>, << >>),
               FALSE)

(***************************************************************************)
(* The process: __init__, the menu loop, and the "pull all" entry of       *)
(* pull_repository with the sweep it runs.                                 *)
(***************************************************************************)
Snapshot == [summaries |-> summaries, summary_failures |-> summary_failures,
             enable_summary |-> enable_summary, ledger |-> ledger]

Init ==
    /\ enable_summary \in BOOLEAN
    /\ dry_run \in BOOLEAN
    /\ max_retries \in (-1)..MaxRetries
    /\ summaries = << >>
    /\ clock = 0
    /\ current_date = clock
    /\ summary_failures = 0
    /\ ledger \in {NoFile, File(TRUE, << >>), File(TRUE, << OldContent >>)}
    /\ pc = "menu"
    /\ stack = << >>
    /\ runs = 0
    /\ processed = << >>
    /\ trace = << >>
    /\ prev = Snapshot
    /\ cwd = Root
    /\ summarize_call = NoCall
    /\ switch_call = NoSwitch

config == << dry_run, max_retries, current_date, cwd, summarize_call, switch_call >>

\* git_pull_recursive(directory) begins: os.listdir(directory)
Enter(directory) ==
    IF Tree[directory].readable
    THEN /\ stack' = << Frame(directory, 0) >> \o stack
         /\ trace' = << Event("listdir", "ok") >>
    ELSE /\ stack' = stack
         /\ trace' = << Event("listdir", "PermissionError"), Event("print", "Permission denied") >>

\* pull_repository, option 2, up to the call of git_pull_recursive(Path.cwd())
StartPullAll ==
    /\ pc = "menu"
    /\ runs < MaxRuns
    /\ runs' = runs + 1
    /\ clock' = clock + 1
    /\ summaries' = << >>
    /\ processed' = << >>
    /\ Enter(cwd)
    /\ pc' = "walk"
    /\ prev' = Snapshot
    /\ UNCHANGED << enable_summary, summary_failures, ledger, config >>

Top == stack[1]

Item == Head(Top.items)

AdvanceLeaves(st) == Tail(st)

\* the for loop of the innermost git_pull_recursive moves to its next item
Advance(st) == << [st[1] EXCEPT !.items = Tail(@)] >> \o Tail(st)

AtItem == pc = "walk" /\ stack # << >> /\ Top.items # << >>

\* the path of the item holds more symbolic links than the system follows: stat fails
\* with ELOOP, which Path.is_dir() answers with False
TooManyLinks(item) == IsLink(item) /\ Top.links >= MaxLinks

\* the symbolic links in the path of the item
LinksTo(item) == Top.links + (IF IsLink(item) THEN 1 ELSE 0)

\* a hidden name other than .git, or something that is not a directory
SkipItem ==
    /\ AtItem
    /\ SkippedByName(Item) \/ ~IsDir(Item) \/ TooManyLinks(Item)
    /\ stack' = Advance(stack)
    /\ trace' = << >>
    /\ prev' = Snapshot
    /\ UNCHANGED << enable_summary, summaries, summary_failures, ledger, clock, pc, runs,
                    processed, config >>

\* a directory holding a .git directory: git_pull(item_path)
PullRepo ==
    /\ AtItem
    /\ ~SkippedByName(Item) /\ IsDir(Item) /\ ~TooManyLinks(Item) /\ HasGitDir(Item)
    /\ \E env \in Envs :
         LET r == GitPull(Item, env)
         IN  /\ summaries' = r.summaries
             /\ summary_failures' = r.failures
             /\ enable_summary' = r.enable
             /\ trace' = r.trace
    /\ processed' = Append(processed, Item)
    /\ stack' = Advance(stack)
    /\ prev' = Snapshot
    /\ UNCHANGED << ledger, clock, pc, runs, config >>

\* any other directory: git_pull_recursive(item_path)
Descend ==
    /\ AtItem
    /\ ~SkippedByName(Item) /\ IsDir(Item) /\ ~TooManyLinks(Item) /\ ~HasGitDir(Item)
    /\ \E raises \in IsDirRaises(Item) :
         LET item == Item
         IN  IF raises
             THEN \* the handler of the call that is listing ends its loop
                  /\ stack' = Tail(stack)
                  /\ trace' = << Event("is_dir", "PermissionError"),
                                 Event("print", "Permission denied") >>
             ELSE IF Tree[Resolve(item)].readable
             THEN /\ stack' = << Frame(item, LinksTo(item)) >> \o Advance(stack)
                  /\ trace' = << Event("listdir", "ok") >>
             ELSE /\ stack' = Advance(stack)
                  /\ trace' = << Event("listdir", "PermissionError"),
                                 Event("print", "Permission denied") >>
    /\ prev' = Snapshot
    /\ UNCHANGED << enable_summary, summaries, summary_failures, ledger, clock, pc, runs,
                    processed, config >>

\* the for loop of a git_pull_recursive call is over: the call returns
Return ==
    /\ pc = "walk"
    /\ stack # << >> /\ Top.items = << >>
    /\ stack' = Tail(stack)
    /\ trace' = << >>
    /\ prev' = Snapshot
    /\ UNCHANGED << enable_summary, summaries, summary_failures, ledger, clock, pc, runs,
                    processed, config >>

\* "if self.summaries and self.enable_summary"
SavesSummaries(sums, enable) == sums # << >> /\ enable

\* pull_repository, option 2, after git_pull_recursive has returned
FinishPullAll ==
    /\ pc = "walk"
    /\ stack = << >>
    /\ \E io \in IOs :
         IF SavesSummaries(summaries, enable_summary)
         THEN LET r == SaveSummaries(summaries, enable_summary, dry_run, current_date,
                                     ledger, io)
              IN  /\ ledger' = r.file
                  /\ trace' = << Event("save_summaries", "git_summaries.txt") >> \o r.trace
                                \o << Event("print", "Summaries saved"),
                                      Event("print", "All repositories updated successfully.") >>
         ELSE /\ ledger' = ledger
              /\ trace' = << Event("print", "All repositories updated successfully.") >>
    /\ pc' = "menu"
    /\ prev' = Snapshot
    /\ UNCHANGED << enable_summary, summaries, summary_failures, clock, stack, runs,
                    processed, config >>

Next == StartPullAll \/ SkipItem \/ PullRepo \/ Descend \/ Return \/ FinishPullAll

Spec == Init /\ [][Next]_vars

(***************************************************************************)
(* The "pull all" sweep started in any of the working directories, with    *)
(* summaries disabled.                                                     *)
(***************************************************************************)
InitWalk ==
    /\ enable_summary = FALSE
    /\ dry_run \in BOOLEAN
    /\ max_retries = 0
    /\ summaries = << >>
    /\ clock = 0
    /\ current_date = clock
    /\ summary_failures = 0
    /\ ledger = NoFile
    /\ pc = "menu"
    /\ stack = << >>
    /\ runs = 0
    /\ processed = << >>
    /\ trace = << >>
    /\ prev = Snapshot
    /\ cwd \in WalkRoots
    /\ summarize_call = NoCall
    /\ switch_call = NoSwitch

SpecWalk == InitWalk /\ [][Next]_vars

(***************************************************************************)
(* summarize_with_ollama called on its own, once, with any commit messages *)
(* and any behaviour of the generation service at each attempt.            *)
(***************************************************************************)
InitSummarize ==
    /\ enable_summary = TRUE
    /\ dry_run = FALSE
    /\ max_retries \in (-1)..MaxRetriesAlone
    /\ summaries = << >>
    /\ clock = 0
    /\ current_date = clock
    /\ summary_failures \in 0..1
    /\ ledger = NoFile
    /\ pc = "menu"
    /\ stack = << >>
    /\ runs = 0
    /\ processed = << >>
    /\ trace = << >>
    /\ prev = Snapshot
    /\ cwd = Root
    /\ summarize_call = NoCall
    /\ switch_call = NoSwitch

SummarizeWithOllama ==
    /\ pc = "menu" /\ ~summarize_call.made
    /\ \E commit_messages \in CommitTexts, gen \in CallGens(max_retries) :
         LET r == Summarize(commit_messages, max_retries, gen)
         IN  /\ summarize_call' = Call(commit_messages, gen, r, TRUE)
             /\ summary_failures' = summary_failures + r.inc
             /\ trace' = r.calls \o << Event("summarize", r.ret.id) >>
    /\ prev' = Snapshot
    /\ UNCHANGED << enable_summary, dry_run, max_retries, summaries, current_date, ledger,
                    clock, pc, stack, runs, processed, cwd, switch_call >>

NextSummarize == SummarizeWithOllama

SpecSummarize == InitSummarize /\ [][NextSummarize]_vars

(***************************************************************************)
(* switch_branch called once from the menu, on any repository name, any    *)
(* listing git can print and any answer of the user.                       *)
(***************************************************************************)
InitBranches ==
    /\ enable_summary = FALSE
    /\ dry_run = FALSE
    /\ max_retries = 0
    /\ summaries = << >>
    /\ clock = 0
    /\ current_date = clock
    /\ summary_failures = 0
    /\ ledger = NoFile
    /\ pc = "menu"
    /\ stack = << >>
    /\ runs = 0
    /\ processed = << >>
    /\ trace = << >>
    /\ prev = Snapshot
    /\ cwd = Root
    /\ summarize_call = NoCall
    /\ switch_call = NoSwitch

SwitchBranch ==
    /\ pc = "menu" /\ ~switch_call.made
    /\ \E repo_name \in RepoNames, listing \in { l \in Listings : Printable(l) },
          selection \in Selections, checkout \in { Done, Exits(1) } :
         LET r == SwitchBranchOf(repo_name, listing, selection, checkout, cwd)
         IN  /\ switch_call' = SwitchCall(repo_name, listing, selection, checkout, r, TRUE)
             /\ trace' = r.trace
    /\ prev' = Snapshot
    /\ UNCHANGED << enable_summary, dry_run, max_retries, summaries, current_date,
                    summary_failures, ledger, clock, pc, stack, runs, processed, cwd,
                    summarize_call >>

NextBranches == SwitchBranch

SpecBranches == InitBranches /\ [][NextBranches]_vars

(***************************************************************************)
(* Reading the trace of a step.                                            *)
(***************************************************************************)
Ops(t, op) == SelectSeq(t, LAMBDA e : e.op = op)

Has(t, op, arg) == \E i \in DOMAIN t : t[i] = Event(op, arg)

Called(t, op) == Ops(t, op) # << >>

\* the step was a call of git_pull
IsPull(t) == t # << >> /\ t[1].op = "git rev-parse HEAD"

\* git_pull read the revision before and after a pull that succeeded
ReadBoth(t) == Has(t, "git pull", "none") /\ Len(Ops(t, "git rev-parse HEAD")) = 2
               /\ Ops(t, "git rev-parse HEAD")[2].arg \notin Exceptions

OldRevision(t) == Ops(t, "git rev-parse HEAD")[1].arg

NewRevision(t) == Ops(t, "git rev-parse HEAD")[2].arg

\* git_pull ended in one of its exception handlers or in the handler of the pull
Failed(t) == Has(t, "print", "Git error") \/ Has(t, "print", "Unexpected error")
             \/ Has(t, "print", "forbidden")

RunOver == pc = "menu" /\ runs > 0

\* git_pull found the repository updated, with a non-empty list of new commits
UpdatedWithCommits(t) ==
    /\ ReadBoth(t) /\ OldRevision(t) # NewRevision(t)
    /\ Called(t, "git log old..new")
    /\ Ops(t, "git log old..new")[1].arg \notin Exceptions \cup {""}

(***************************************************************************)
(* C1: in a live pass, a repository whose revision after the pull equals   *)
(* the revision before it is reported as unchanged, the summariser is not  *)
(* called for it and no summary record is appended.                        *)
(***************************************************************************)
C1_NoChange ==
    (IsPull(trace) /\ ~dry_run /\ ReadBoth(trace) /\ OldRevision(trace) = NewRevision(trace))
    => /\ Has(trace, "print", "No changes")
       /\ ~Called(trace, "summarize")
       /\ ~Called(trace, "git log old..new")
       /\ summaries = prev.summaries

C1_Witness ==
    /\ IsPull(trace) /\ ~dry_run /\ enable_summary /\ ReadBoth(trace)
    /\ OldRevision(trace) = NewRevision(trace)
    /\ Has(trace, "print", "No changes")

(***************************************************************************)
(* C2: a failure while one repository is processed does not end the pass:  *)
(* the sweep is still running after it, and when the pass is over every    *)
(* repository of the sweep has been handed to git_pull, in order.          *)
(***************************************************************************)
C2_PassGoesOn ==
    /\ (pc = "walk" /\ IsPull(trace) /\ Failed(trace)) => stack # << >>
    /\ RunOver => processed = Sweep(Root)
    /\ pc = "walk" =>
         \E n \in 0..Len(Sweep(Root)) : processed = SubSeq(Sweep(Root), 1, n)

C2_Witness ==
    /\ pc = "walk" /\ IsPull(trace) /\ Failed(trace)
    /\ Len(processed) = 2 /\ Len(stack) = 2 /\ Top.items = << >>

(***************************************************************************)
(* C3 as stated: once the failure counter exceeds 3, enable_summary is     *)
(* false for every repository processed from then on and the summariser   *)
(* is not called for it.                                                   *)
(***************************************************************************)
C3_DisabledOnceExceeded ==
    (IsPull(trace) /\ prev.summary_failures > 3)
    => ~enable_summary /\ ~Called(trace, "summarize")

(***************************************************************************)
(* C3, amended: once the failure counter exceeds 3 the summariser is not   *)
(* called for any repository processed afterwards and no record is added;  *)
(* enable_summary becomes false when the first such repository that was    *)
(* updated with a non-empty commit list is processed, and once false it    *)
(* is never set back.                                                      *)
(***************************************************************************)
C3_CircuitBreaker ==
    /\ (IsPull(trace) /\ prev.summary_failures > 3)
       => /\ ~Called(trace, "summarize")
          /\ summaries = prev.summaries
          /\ summary_failures = prev.summary_failures
          /\ UpdatedWithCommits(trace) => ~enable_summary
    /\ ~prev.enable_summary => ~enable_summary

C3_Witness ==
    /\ IsPull(trace) /\ prev.summary_failures > 3 /\ ~prev.enable_summary
    /\ UpdatedWithCommits(trace)
    /\ ~Called(trace, "summarize")

(***************************************************************************)
(* Reading the step that ends a run and the ledger.                        *)
(***************************************************************************)
\* the step was the end of pull_repository's "pull all"
IsFinish(t) == Has(t, "print", "All repositories updated successfully.")

\* save_summaries was called and no file operation raised
Saved(t) == Called(t, "save_summaries") /\ ~Has(t, "print", "Error saving summaries")

NoneSucceeded(sums) == \A i \in DOMAIN sums : ~sums[i].success

Failures(sums) == SelectSeq(sums, LAMBDA entry : ~entry.success)

Successes(sums) == SelectSeq(sums, LAMBDA entry : entry.success)

Entries(file) == SelectSeq(file.content, LAMBDA c : c.kind = "Entry")

\* the content the file had, as the program reads it
Content(file) == IF file.exists THEN file.content ELSE << >>

(***************************************************************************)
(* C4: persisting an empty record set, or one whose records all have       *)
(* success = FALSE, leaves the ledger file as it was (absent if it was     *)
(* absent), at the end of every run and for every call of save_summaries   *)
(* on such a set.                                                          *)
(***************************************************************************)
C4_NothingValidNothingWritten ==
    /\ (IsFinish(trace) /\ NoneSucceeded(summaries)) => ledger = prev.ledger
    /\ \A io \in IOs :
         /\ SaveSummaries(<< >>, enable_summary, dry_run, current_date, ledger, io).file
              = ledger
         /\ SaveSummaries(Failures(summaries), enable_summary, dry_run, current_date,
                          ledger, io).file = ledger

C4_Witness ==
    /\ IsFinish(trace) /\ runs = 2 /\ Called(trace, "save_summaries")
    /\ summaries # << >> /\ NoneSucceeded(summaries)
    /\ Has(trace, "log", "No valid summaries to save")
    /\ ~ledger.exists

(***************************************************************************)
(* C5: when save_summaries is called with at least one successful record   *)
(* and no file operation fails, the file afterwards is the header with the *)
(* run's date, the blocks of the successful records in order, and then,    *)
(* only if the file had content before, the separator and that content     *)
(* verbatim.                                                               *)
(***************************************************************************)
C5_PrependLaw ==
    (IsFinish(trace) /\ Saved(trace) /\ Successes(summaries) # << >>)
    => /\ ledger.exists
       /\ ledger.content =
            IF Content(prev.ledger) = << >>
            THEN << Header(current_date) >> \o Blocks(Successes(summaries))
            ELSE << Header(current_date) >> \o Blocks(Successes(summaries))
                    \o << Separator >> \o Content(prev.ledger)

C5_Witness ==
    /\ IsFinish(trace) /\ Saved(trace) /\ Successes(summaries) # << >>
    /\ Failures(summaries) # << >>
    /\ runs = 2
    /\ \E i \in DOMAIN prev.ledger.content : prev.ledger.content[i].kind = "Entry"
    /\ \E i \in DOMAIN ledger.content : ledger.content[i] = Separator

(***************************************************************************)
(* C6: no block of the ledger file comes from a record whose success flag  *)
(* is FALSE: no block holds a text that starts with "Error", and a block   *)
(* of a failed record of the run is in the file only if it was there       *)
(* before the run ended.                                                   *)
(***************************************************************************)
C6_NoFailedRecordInLedger ==
    /\ \A i \in DOMAIN ledger.content :
         ledger.content[i].kind = "Entry" => ~StartsWithError(ledger.content[i].summary)
    /\ \A i \in DOMAIN summaries :
         ~summaries[i].success =>
            \/ \E j \in DOMAIN prev.ledger.content : prev.ledger.content[j] = Block(summaries[i])
            \/ ~\E j \in DOMAIN ledger.content : ledger.content[j] = Block(summaries[i])

C6_Witness ==
    /\ IsFinish(trace) /\ Saved(trace)
    /\ Failures(summaries) # << >> /\ Successes(summaries) # << >>
    /\ Len(Entries(ledger)) = Len(Entries(prev.ledger)) + Len(Successes(summaries))

(***************************************************************************)
(* C7: in dry-run mode git_pull never calls pull or the summariser and     *)
(* adds no record, no step writes the ledger file, and when the log of     *)
(* pending commits is not empty the preview messages are logged.           *)
(***************************************************************************)
Pending(t) == Ops(t, "git log old..origin/branch")

C7_DryRun ==
    dry_run =>
      /\ summaries = << >>
      /\ ledger = prev.ledger
      /\ ~Called(trace, "git pull") /\ ~Called(trace, "summarize")
      /\ ~Called(trace, "save_summaries")
      /\ (IsPull(trace) /\ Pending(trace) # << >>
            /\ Pending(trace)[1].arg \notin Exceptions \cup {""})
         => /\ Has(trace, "log", "[Dry Run] Would pull")
            /\ Has(trace, "log", "[Dry Run] New commits")

C7_Witness ==
    /\ dry_run /\ enable_summary /\ IsPull(trace)
    /\ Pending(trace) # << >> /\ Pending(trace)[1].arg = "c1"
    /\ Has(trace, "log", "[Dry Run] New commits")
    /\ Len(processed) = 3

(***************************************************************************)
(* C8: in a live pass every repository handed to git_pull gets exactly one *)
(* terminal outcome reported: unchanged, updated, forbidden or failed.     *)
(***************************************************************************)
Reports(t) ==
    SelectSeq(t, LAMBDA e : e \in { Event("print", "No changes"),
                                    Event("print", "forbidden"),
                                    Event("print", "Git error"),
                                    Event("print", "Unexpected error"),
                                    Event("log", "New commits") })

C8_OneOutcomeReported == (IsPull(trace) /\ ~dry_run) => Len(Reports(trace)) = 1

(***************************************************************************)
(* C9: a call of the summariser that ends in a failure (insufficient       *)
(* result, timeout, command failed, not installed, unexpected error) adds  *)
(* one to summary_failures; one that ends in success leaves it unchanged.  *)
(***************************************************************************)
FailureTexts == { InsufficientMsg.id, TimedOutMsg.id, CommandFailedMsg.id,
                  NotInstalledMsg.id, UnexpectedMsg.id }

Summarized(t) == Ops(t, "summarize")

C9_FailureCounted ==
    (IsPull(trace) /\ Summarized(trace) # << >>)
    => IF Summarized(trace)[1].arg \in FailureTexts
       THEN summary_failures = prev.summary_failures + 1
       ELSE summary_failures = prev.summary_failures

(***************************************************************************)
(* C10: when every attempt returns an empty or too short result, the       *)
(* record appended for the repository has success = FALSE and its text is  *)
(* not in the ledger file.                                                 *)
(***************************************************************************)
C10_InsufficientIsFailure ==
    /\ (IsPull(trace) /\ Has(trace, "summarize", InsufficientMsg.id))
       => /\ Len(summaries) = Len(prev.summaries) + 1
          /\ ~summaries[Len(summaries)].success
    /\ \A i \in DOMAIN ledger.content : ledger.content[i].summary # InsufficientMsg

(***************************************************************************)
(* Reading a call of summarize_with_ollama made on its own.                *)
(***************************************************************************)
\* the call was made, on commit messages that are not blank
Summarizing == summarize_call.made /\ ~IsEmptyS(StripS(summarize_call.commit_messages))

\* the attempts the call made: one probe begins each
AttemptsMade == Len(Ops(trace, "ollama list"))

\* how an attempt ended
Outcome(o) ==
    IF Raised(o) # "none" THEN Raised(o)
    ELSE IF TooShort(Strip(o.out)) THEN "insufficient" ELSE "text"

LastOutcome == Outcome(summarize_call.gen[AttemptsMade])

Returned == summarize_call.result.ret

FailureMsgs == { InsufficientMsg, TimedOutMsg, CommandFailedMsg, NotInstalledMsg,
                 UnexpectedMsg }

\* the bounds and the endings C11 asks for, with the outcomes after which a further
\* attempt is allowed
AttemptsWithin(retriable) ==
    (Summarizing /\ max_retries >= 0)
    => /\ AttemptsMade >= 1 /\ AttemptsMade <= max_retries + 1
       /\ Returned # None
       /\ \A i \in 1..(AttemptsMade - 1) :
            Outcome(summarize_call.gen[i]) \in retriable /\ i <= max_retries
       /\ LastOutcome = "TimeoutExpired" => Returned = TimedOutMsg
       /\ LastOutcome = "CalledProcessError" => Returned = CommandFailedMsg

(***************************************************************************)
(* C11 as stated: for max_retries >= 0 a call on non-blank commit messages *)
(* makes at most max_retries + 1 attempts and returns a text; a further    *)
(* attempt follows only an insufficient result, a timeout or a nonzero     *)
(* exit, and only while attempts remain; a last attempt that times out     *)
(* gives the timed-out text, one that exits nonzero the command-failed     *)
(* text.                                                                   *)
(***************************************************************************)
C11_RetryOnlyAfterThree ==
    AttemptsWithin({"insufficient", "TimeoutExpired", "CalledProcessError"})

(***************************************************************************)
(* C11, amended: the same, where a further attempt may also follow any     *)
(* other exception than the one of a missing program.                      *)
(***************************************************************************)
C11_BoundedAttempts ==
    AttemptsWithin({"insufficient", "TimeoutExpired", "CalledProcessError", "Exception"})

C11_Witness ==
    /\ Summarizing /\ max_retries = 2 /\ AttemptsMade = 3
    /\ Outcome(summarize_call.gen[1]) = "insufficient"
    /\ Outcome(summarize_call.gen[2]) = "TimeoutExpired"
    /\ LastOutcome = "CalledProcessError"
    /\ Returned = CommandFailedMsg

(***************************************************************************)
(* C12: when the program of the generation service is not found, the call  *)
(* returns the not-installed text at that attempt and makes no further     *)
(* attempt, however many attempts remain; found missing at the first       *)
(* attempt, the call makes that attempt only.                              *)
(***************************************************************************)
C12_NotInstalledIsTerminal ==
    (Summarizing /\ max_retries >= 0)
    => /\ \A i \in 1..AttemptsMade :
            Outcome(summarize_call.gen[i]) = "FileNotFoundError"
            => i = AttemptsMade /\ Returned = NotInstalledMsg
       /\ Outcome(summarize_call.gen[1]) = "FileNotFoundError"
          => /\ AttemptsMade = 1 /\ ~Called(trace, "sleep")
             /\ summary_failures = prev.summary_failures + 1

C12_Witness ==
    /\ Summarizing /\ max_retries = 2
    /\ summarize_call.gen[1].probe = "FileNotFoundError"
    /\ AttemptsMade = 1 /\ Returned = NotInstalledMsg

(***************************************************************************)
(* C13: when the probe of an attempt exits nonzero or times out, the call  *)
(* makes no further attempt and returns a failure text.                    *)
(***************************************************************************)
C13_ProbeFailureIsTerminal ==
    (Summarizing /\ max_retries >= 0)
    => \A i \in 1..AttemptsMade :
         summarize_call.gen[i].probe \in {"CalledProcessError", "TimeoutExpired"}
         => i = AttemptsMade /\ Returned \in FailureMsgs

(***************************************************************************)
(* C14: on empty or blank commit messages the call returns the fixed       *)
(* nothing-to-summarize text, which counts as a success, without running   *)
(* the probe or the generation service, and summary_failures is unchanged. *)
(***************************************************************************)
C14_NothingToSummarize ==
    (summarize_call.made /\ summarize_call.commit_messages.txt = "")
    => /\ Returned = NoCommitsMsg /\ Success(Returned)
       /\ ~Called(trace, "ollama list") /\ ~Called(trace, "ollama run")
       /\ ~Called(trace, "sleep")
       /\ summary_failures = prev.summary_failures

C14_Witness ==
    /\ summarize_call.made /\ summarize_call.commit_messages = Raw(2, "")
    /\ max_retries = 2 /\ summarize_call.gen[1].probe = "FileNotFoundError"
    /\ Returned = NoCommitsMsg /\ trace = << Event("summarize", NoCommitsMsg.id) >>

(***************************************************************************)
(* Reading the tree.                                                       *)
(***************************************************************************)
\* everything below a directory, symbolic links not followed
RECURSIVE Inside(_)
Inside(n) == UNION { {e} \cup Inside(e) : e \in Range(Tree[n].entries) }

\* the directory has a name that starts with "." or lies below one that has
Hidden(n) == StartsWithDot(n) \/ \E h \in Paths : StartsWithDot(h) /\ n \in Inside(h)

\* the directories below n that are reached through ordinary directories only
RECURSIVE OrdinaryInside(_)
OrdinaryInside(n) ==
    UNION { {e} \cup OrdinaryInside(e) :
              e \in { d \in Range(Tree[n].entries) :
                        Tree[d].isdir /\ ~StartsWithDot(d) /\ ~IsLink(d) } }

(***************************************************************************)
(* C15: the sweep never lists a .git directory or any other directory      *)
(* whose name starts with ".", nor anything below one, and no directory    *)
(* below one is handed to git_pull; this from any working directory, one   *)
(* that is a repository included.                                          *)
(***************************************************************************)
C15_NeverInsideHidden ==
    /\ \A i \in DOMAIN stack : ~Hidden(stack[i].directory)
    /\ \A i \in DOMAIN processed : ~Hidden(processed[i])

(***************************************************************************)
(* C16: a repository that lies in an ordinary subdirectory of the working  *)
(* tree of a repository the pass has processed is processed by the pass    *)
(* too.                                                                    *)
(***************************************************************************)
C16_NestedProcessed ==
    RunOver =>
      \A r \in Range(processed) :
        \A d \in OrdinaryInside(r) : HasGitDir(d) => d \in Range(processed)

(***************************************************************************)
(* C17: in one pass no directory of the file system is handed to git_pull  *)
(* more than once, symbolic links to directories notwithstanding.          *)
(***************************************************************************)
C17_NoRepositoryTwice ==
    \A i, j \in DOMAIN processed :
        i # j => Resolve(processed[i]) # Resolve(processed[j])

(***************************************************************************)
(* C18: a permission error during the sweep is reported, and it costs the  *)
(* pass only the subtree of the directory that could not be read: when the *)
(* pass is over, every repository the sweep finds outside such subtrees    *)
(* has been handed to git_pull.                                            *)
(***************************************************************************)
C18_DeniedSubtreeOnly ==
    /\ (Has(trace, "listdir", "PermissionError") \/ Has(trace, "is_dir", "PermissionError"))
       => Has(trace, "print", "Permission denied")
    /\ (RunOver /\ cwd \in {Root, 28})
       => \A d \in Range(Sweep(cwd)) : d \in Range(processed)

(***************************************************************************)
(* C19: a pull that fails is reported as forbidden exactly when its error  *)
(* text, the message of the exception or what git wrote, holds "403",      *)
(* "forbidden" or "permission denied" in any letter case; every other      *)
(* failed pull is reported as a Git error.                                 *)
(***************************************************************************)
PullFailed(t) == Has(t, "git pull", "CalledProcessError")

\* the text holds one of the three patterns
Denies(text) == text \in DeniedTexts

C19_ForbiddenByErrorText ==
    (IsPull(trace) /\ PullFailed(trace))
    => /\ (Has(trace, "print", "forbidden") \/ Has(trace, "print", "Git error"))
       /\ Denies(Ops(trace, "stderr")[1].arg) => Has(trace, "print", "forbidden")
       /\ Has(trace, "print", "Git error") => ~Denies(Ops(trace, "stderr")[1].arg)

(***************************************************************************)
(* C20: the ledger file is left as it was whenever summaries are disabled  *)
(* when the run ends, also when they were disabled during the run after    *)
(* successful records had been added, and whenever the run is a dry run;   *)
(* save_summaries itself writes nothing when called with summaries         *)
(* disabled or in a dry run, whatever the records are.                     *)
(***************************************************************************)
C20_DisabledOrDryRunLeavesLedger ==
    /\ (IsFinish(trace) /\ (~enable_summary \/ dry_run)) => ledger = prev.ledger
    /\ \A io \in IOs :
         /\ SaveSummaries(summaries, FALSE, dry_run, current_date, ledger, io).file = ledger
         /\ SaveSummaries(summaries, enable_summary, TRUE, current_date, ledger, io).file
              = ledger

C20_Witness ==
    /\ IsFinish(trace) /\ ~dry_run
    /\ ~enable_summary /\ summary_failures > 3
    /\ Successes(summaries) # << >>
    /\ ~Called(trace, "save_summaries")

(***************************************************************************)
(* C21: in a live pass with max_retries >= 0, git_pull appends a record    *)
(* for a repository exactly when the repository was updated, its list of   *)
(* new commits is not empty, summaries are enabled and summary_failures is *)
(* not above 3; it then appends one record, whether the summary succeeded  *)
(* or failed, and otherwise, the breaker trip included, none.              *)
(***************************************************************************)
Appended == Len(summaries) = Len(prev.summaries) + 1
            /\ SubSeq(summaries, 1, Len(prev.summaries)) = prev.summaries

C21_RecordIffSummarized ==
    (IsPull(trace) /\ ~dry_run /\ max_retries >= 0)
    => IF /\ UpdatedWithCommits(trace) /\ prev.enable_summary
          /\ prev.summary_failures <= 3
       THEN Appended /\ Called(trace, "summarize")
       ELSE summaries = prev.summaries /\ ~Called(trace, "summarize")

C21_Witness ==
    /\ IsPull(trace) /\ ~dry_run /\ max_retries >= 0
    /\ UpdatedWithCommits(trace) /\ prev.summary_failures = 3
    /\ Appended /\ ~summaries[Len(summaries)].success
    /\ Successes(summaries) # << >>

(***************************************************************************)
(* C22: in a live pass git_pull reads the old revision and the branch      *)
(* before it pulls, reads the new revision only after a pull that          *)
(* succeeded, lists the new commits only when the two revisions differ,    *)
(* and calls the summariser only after that list; after a failed pull it   *)
(* does none of the later steps.                                           *)
(***************************************************************************)
\* the place of the first event of an operation in a trace, 0 if there is none
Pos(t, op) ==
    IF Called(t, op) THEN CHOOSE i \in DOMAIN t : t[i].op = op /\ \A j \in 1..(i - 1) : t[j].op # op
    ELSE 0

\* the place of the second reading of the revision, 0 if there is none
PosNew(t) ==
    IF Len(Ops(t, "git rev-parse HEAD")) = 2
    THEN CHOOSE i \in DOMAIN t : i > 1 /\ t[i].op = "git rev-parse HEAD"
    ELSE 0

C22_StepsInOrder ==
    (IsPull(trace) /\ ~dry_run)
    => /\ Called(trace, "git pull")
          => /\ trace[1].arg \notin Exceptions
             /\ trace[2].op = "git rev-parse --abbrev-ref HEAD"
             /\ trace[2].arg \notin Exceptions
             /\ Pos(trace, "git pull") > 2
       /\ PosNew(trace) # 0
          => Has(trace, "git pull", "none") /\ PosNew(trace) > Pos(trace, "git pull")
       /\ Called(trace, "git log old..new")
          => /\ ReadBoth(trace) /\ OldRevision(trace) # NewRevision(trace)
             /\ Pos(trace, "git log old..new") > PosNew(trace)
       /\ Called(trace, "summarize")
          => /\ UpdatedWithCommits(trace)
             /\ Pos(trace, "summarize") > Pos(trace, "git log old..new")
       /\ (Called(trace, "git pull") /\ ~Has(trace, "git pull", "none"))
          => /\ PosNew(trace) = 0 /\ ~Called(trace, "git log old..new")
             /\ ~Called(trace, "summarize") /\ summaries = prev.summaries

C22_Witness ==
    /\ IsPull(trace) /\ ~dry_run
    /\ Pos(trace, "git pull") = 4 /\ PosNew(trace) = 5
    /\ Pos(trace, "git log old..new") = 6 /\ Pos(trace, "summarize") = 9

(***************************************************************************)
(* C23: a generated text of stripped length L >= 10 is returned unchanged  *)
(* when L <= 1000, and as its first 997 characters followed by "..." when  *)
(* L > 1000; the text returned for it is never longer than 1000.           *)
(***************************************************************************)
LastText == Strip(summarize_call.gen[AttemptsMade].out)

C23_TruncatedTo1000 ==
    (Summarizing /\ max_retries >= 0 /\ LastOutcome = "text")
    => /\ LastText.len <= 1000 => Returned = LastText
       /\ LastText.len > 1000
          => Returned = [LastText EXCEPT !.len = 997 + 3, !.cut = 997]
       /\ Returned.len <= 1000

C23_Witness ==
    /\ Summarizing /\ max_retries >= 0 /\ LastOutcome = "text"
    /\ LastText.len = 1001 /\ Returned.len = 1000 /\ Returned.cut = 997

(***************************************************************************)
(* C25: the headers written by pull-all runs made at different times in    *)
(* one process carry different timestamps.                                 *)
(***************************************************************************)
Headers(file) == SelectSeq(file.content, LAMBDA c : c.kind = "Date")

C25_HeadersDiffer ==
    \A i, j \in DOMAIN Headers(ledger) :
        i # j => Headers(ledger)[i].date # Headers(ledger)[j].date

(***************************************************************************)
(* C26: every pull-all run starts with summary_failures at zero and with   *)
(* enable_summary as configured, whatever the runs before it did; the      *)
(* flag is cleared only with the counter above 3, so with the counter at   *)
(* zero it is as configured.                                               *)
(***************************************************************************)
RunStarting == pc = "walk" /\ processed = << >>

C26_BreakerScopedToRun ==
    RunStarting => summary_failures = 0 /\ (prev.enable_summary => enable_summary)

(***************************************************************************)
(* C27: with max_retries >= 0, summary_failures never exceeds 4 and equals *)
(* the number of records with success = FALSE appended so far; this is     *)
(* read in the first run of the process, where summaries holds every       *)
(* record appended so far.                                                 *)
(***************************************************************************)
C27_CounterCountsFailedRecords ==
    max_retries >= 0
    => /\ summary_failures <= 4
       /\ runs <= 1 => summary_failures = Len(Failures(summaries))
       /\ runs <= 1 => Len(Failures(summaries)) <= 4

(***************************************************************************)
(* C29: after any call of save_summaries on a file that held content, that *)
(* content is still in the file: as the end of the file when the call      *)
(* wrote the new content, as the whole file when a file operation failed.  *)
(***************************************************************************)
EndsWith(content, old) ==
    /\ Len(old) <= Len(content)
    /\ SubSeq(content, Len(content) - Len(old) + 1, Len(content)) = old

C29_HistoryKept ==
    (IsFinish(trace) /\ Called(trace, "save_summaries") /\ Content(prev.ledger) # << >>)
    => IF Has(trace, "print", "Error saving summaries")
       THEN ledger.content = Content(prev.ledger)
       ELSE EndsWith(ledger.content, Content(prev.ledger))
(***************************************************************************)
(* C28: in a tree without symbolic links, and where every directory can be *)
(* searched, the pass started in the working directory has handed to       *)
(* git_pull, when it is over, exactly the directories                      *)
(* find_git_repositories returns for the working directory.                *)
(***************************************************************************)
RECURSIVE Below(_)
RECURSIVE BelowAll(_)
BelowAll(items) ==
    IF items = << >> THEN {} ELSE Below(Head(items)) \cup BelowAll(Tail(items))

\* a directory and everything under it, links not followed
Below(item) == {item} \cup BelowAll(Tree[item].entries)

NoLinks(directory) == \A item \in Below(directory) : ~IsLink(item)

AllSearchable(directory) == \A item \in Below(directory) : Tree[item].searchable

C28_SweepEqualsFind ==
    (RunOver /\ NoLinks(cwd) /\ AllSearchable(cwd))
    => Range(processed) = Range(FindGitRepositories(cwd))

(***************************************************************************)
(* C24: the list switch_branch builds from the listing holds no name       *)
(* twice and no entry for the line of the symbolic HEAD pointer; it has    *)
(* one entry for each line of a local branch (or of a detached HEAD) and   *)
(* one for each name that only remote-tracking branches have, so that a    *)
(* remote-tracking branch with the name of a local branch adds none; and   *)
(* no branch other than the one HEAD is on is flagged current.             *)
(***************************************************************************)
Listed == switch_call.made /\ switch_call.result.parsed

LocalNames(listing) == listing.locals

RemoteNames(listing) == { ref.name : ref \in listing.remotes }

C24_BranchList ==
    Listed =>
      LET listing == switch_call.listing
          branches == switch_call.result.branches
      IN  /\ \A i, j \in DOMAIN branches : branches[i].branch = branches[j].branch => i = j
          /\ \A i \in DOMAIN branches : ~Contains(branches[i].branch, << "->" >>)
          /\ Len(branches) = Cardinality(LocalNames(listing))
                              + (IF listing.head = Detached THEN 1 ELSE 0)
                              + Cardinality(RemoteNames(listing) \ LocalNames(listing))
          /\ \A i \in DOMAIN branches :
                (/\ branches[i].is_current
                 /\ branches[i].branch \in LocalNames(listing) \cup RemoteNames(listing))
                => listing.head = OnBranch(branches[i].branch)

====
